---- MODULE Spec2Model ----
(***************************************************************************)
(* HiRes content script: the high-resolution URL resolution engine.        *)
(*                                                                         *)
(* The repository holds several generations of the content script, each    *)
(* with its own specification:                                             *)
(*   Spec       "click"  src/content.js:1-307   extractHighResUrl (fast    *)
(*              path, pre-clean, hidePreview, triggerPreview, rAF poll)    *)
(*   SpecGhost  "ghost"  src/unnamed/part_004:1-281  ghostClickAndExtract  *)
(*              (inject style, click, 100 ms poll loop, closePreviewPanel) *)
(*   SpecObserver  "observer"  src/content.js:309-1022  right-click capture *)
(*              with a MutationObserver and a 1.5 s safety timeout         *)
(*   SpecObserver4 "observer4" src/unnamed/part_004:283-1075  right-click   *)
(*              capture that awaits the observer (50 ms interval, 1 s      *)
(*              timeout) before storing the target                         *)
(* A JavaScript task runs to completion, so one action is one task: a      *)
(* listener call or a timer / animation-frame callback together with the   *)
(* promise continuations (microtasks) it releases.                         *)
(***************************************************************************)
EXTENDS Integers, Sequences, FiniteSets, TLC

\* ---- bounds of the model ----
NumElems == 2
MaxSessions == 2
MaxCaptures == 2
\* the poll deadline and the poll cadence, in abstract time units
MaxWait == 3
PollStep == 2
\* context-menu clicks handled by the background worker
MaxClicks == 2
\* tokens after the host in an address handed to the normalizer
MaxTail == 4
\* candidates in one metadata payload
MaxPayload == 2
\* processing runs of one Upscale Studio page
MaxRuns == 2
\* ancestors of the target that the trigger functions look at
MaxDepth == 2
\* calls of the style-removal routine with one handle
MaxReleases == 2

\* Iterations of the preview panel scan loop
MaxScans == 2

NULL == 0

Elements == 1..NumElems
Sessions == 1..MaxSessions
Captures == 1..MaxCaptures
Clicks == 1..MaxClicks

\* What the anchor around a thumbnail carries: no imgurl parameter, or an imgurl
\* parameter holding a direct image address.
HrefKinds == {"none", "imgurl"}

NoUrl == [owner |-> NULL, norm |-> FALSE]
Url(e) == [owner |-> e, norm |-> FALSE]

VARIABLES
  script,                   \* which generation of the content script is loaded
  lastRightClickedElement,  \* the captured right-click target, or NULL
  href,                     \* per thumbnail: what its anchor's href carries
  preview,                  \* thumbnail whose large image the preview panel shows
  styles,                   \* sessions whose <style> element is attached to head
  sess,                     \* per request: the extraction session
  capturedHighResUrl,       \* the pre-captured URL slot (observedHighResUrl)
  attr,                     \* per thumbnail: its container's data-i holds a URL
  cap,                      \* per right-click: the capture session
  clicked,                  \* history: target of the most recent right-click
  calc,                     \* a call of one of the pure helpers: input and result
  clicks,                   \* background router: per context-menu click, its handling
  studio                    \* the Upscale Studio page

vars == <<script, lastRightClickedElement, href, preview, styles, sess,
          capturedHighResUrl, attr, cap, clicked, calc, clicks, studio>>

capVars == <<capturedHighResUrl, attr, cap, clicked>>

auxVars == <<calc, clicks, studio>>

docVars == <<script, lastRightClickedElement, href, preview, styles, sess>>

IdleSession == [pc |-> "idle", target |-> NULL, hint |-> NULL, asked |-> NULL, elapsed |-> 0, result |-> NoUrl,
                resp |-> 0, sent |-> NoUrl, fast |-> FALSE, hid |-> FALSE,
                trig |-> FALSE, obs |-> FALSE, closes |-> 0, after |-> FALSE,
                removed |-> FALSE, threw |-> FALSE, timedOut |-> FALSE,
                mech |-> {}, phases |-> <<>>]

\* No helper call in progress
NoCalc == [pc |-> "none"]

\* No Upscale Studio page open
NoStudio == [pc |-> "none"]

\* A context-menu click the background worker has not received yet
IdleClick == [pc |-> "idle", action |-> "none", thumb |-> "", tabs |-> <<>>,
              tries |-> 0, last |-> "none", injected |-> 0]

IdleCapture == [pc |-> "idle", container |-> NULL, connected |-> FALSE,
                timer |-> FALSE, interval |-> FALSE, resolved |-> FALSE,
                accepted |-> FALSE, steps |-> <<>>, stores |-> 0]

InitDoc ==
  /\ lastRightClickedElement = NULL
  /\ href = [e \in Elements |-> "none"]
  /\ preview = NULL
  /\ styles = {}
  /\ sess = [s \in Sessions |-> IdleSession]
  /\ capturedHighResUrl = NoUrl
  /\ attr = [e \in Elements |-> FALSE]
  /\ cap = [c \in Captures |-> IdleCapture]
  /\ clicked = NULL

\* No function under evaluation, no context-menu click in the background worker
InitAux ==
  /\ calc = NoCalc
  /\ clicks = <<>>
  /\ studio = NoStudio

Init == script = "click" /\ InitDoc /\ InitAux

InitGhost == script = "ghost" /\ InitDoc /\ InitAux

InitObserver == script = "observer" /\ InitDoc /\ InitAux

InitObserver4 == script = "observer4" /\ InitDoc /\ InitAux

\* ---------------------------------------------------------------------------
\* Helpers translated from the source
\* ---------------------------------------------------------------------------

\* What can raise inside a task: nothing, the synthetic trigger, or a scan pass.
Faults == {"none", "trigger", "scan"}

\* hidePreview: create the style element and append it to document.head
hidePreview(st, s) == st \cup {s}

\* showPreview: remove the style element if it is attached
showPreview(st, s) == IF s \in st THEN st \ {s} ELSE st

\* closePreview (content.js:80-87): what it tries in order to dismiss the preview
closePreview == {"Escape"}

\* closePreviewPanel (part_002:46-58, part_004:51-75): Escape, a click on the
\* close control when one is found, a click on the body
closePreviewPanel == {"Escape", "close control", "body click"}

\* stripSizingParameters applied to a resolved address
stripSizingParameters(u) == [u EXCEPT !.norm = TRUE]

\* First thumbnail, in document order, whose anchor has an imgurl parameter.
FirstLink(kinds) ==
  IF \E e \in Elements : href[e] \in kinds
  THEN CHOOSE e \in Elements :
         /\ href[e] \in kinds
         /\ \A d \in Elements : href[d] \in kinds => e <= d
  ELSE NULL

\* One pass of waitForHighResUrl's check() after the deadline test.
\* Method 1: a large direct image in the preview area; Method 2: the first
\* a[href*="imgurl="] of the whole document.  thr: the pass raises before
\* Method 2 accepts a link (href.match at line 155 is a TypeError on an SVG
\* anchor, whose href is no string).
checkScan(thr) ==
  IF preview # NULL THEN [kind |-> "found", url |-> Url(preview)]
  ELSE IF thr THEN [kind |-> "throw", url |-> NoUrl]
  ELSE IF FirstLink({"imgurl"}) # NULL
       THEN [kind |-> "found", url |-> Url(FirstLink({"imgurl"}))]
  ELSE [kind |-> "none", url |-> NoUrl]

\* One pass of extractFromPreviewPanel's loop body: preview images first, then
\* every a[href*="imgurl="] of the document.  thr: the pass raises in the link
\* loop (new URL at line 143 and decodeURIComponent at line 147 are unguarded:
\* an imgurl value with a stray "%" is a URIError).
panelScan(thr) ==
  IF preview # NULL THEN [kind |-> "found", url |-> Url(preview)]
  ELSE IF thr THEN [kind |-> "throw", url |-> NoUrl]
  ELSE IF FirstLink({"imgurl"}) # NULL
       THEN [kind |-> "found", url |-> Url(FirstLink({"imgurl"}))]
  ELSE [kind |-> "none", url |-> NoUrl]

\* The session enters a phase of its run: "suppress" (the style is injected),
\* "trigger" (the synthetic interaction), "observe" (the wait for the preview),
\* "resolved" / "expired" (the wait returned), "cleaned" (the style is removed)
Phase(r, p) == [r EXCEPT !.phases = Append(r.phases, p)]

\* hidePreview / injectHideStyle, then the synthetic interaction
Activated(r) ==
  [r EXCEPT !.hid = TRUE, !.trig = TRUE, !.phases = r.phases \o <<"suppress", "trigger">>]

\* waitForHighResUrl / extractFromPreviewPanel is entered
Observing(r) == [r EXCEPT !.obs = TRUE, !.phases = Append(r.phases, "observe")]

\* The fast path of extractHighResUrl on the target's parent link.
fastPath(e) ==
  IF href[e] = "imgurl" THEN Url(e) ELSE NoUrl

\* sendResponse({ originalUrl: u }).  The session's poll clock and pending
\* value are locals of finished calls from here on; the record keeps the clock
\* only for a wait that ran out (timedOut).
Respond(r, u) ==
  [r EXCEPT !.resp = r.resp + 1, !.sent = u, !.pc = "done", !.result = NoUrl,
            !.elapsed = IF r.timedOut THEN r.elapsed ELSE 0]

\* ---------------------------------------------------------------------------
\* The user and the host document
\* ---------------------------------------------------------------------------

\* contextmenu listener: lastRightClickedElement = event.target
ContextMenu(e) ==
  /\ lastRightClickedElement # e
  /\ lastRightClickedElement' = e
  /\ UNCHANGED <<script, href, preview, styles, sess>>
  /\ UNCHANGED capVars
  /\ UNCHANGED auxVars

\* The host page fills in a thumbnail's anchor lazily.
HostPopulate(e, k) ==
  /\ href[e] = "none"
  /\ k # "none"
  /\ href' = [href EXCEPT ![e] = k]
  /\ UNCHANGED <<script, lastRightClickedElement, preview, styles, sess>>
  /\ UNCHANGED capVars
  /\ UNCHANGED auxVars

\* The host page shows a thumbnail's large image in the preview panel (the
\* answer to a click, the user's or a synthetic one).
HostOpenPreview(e) ==
  /\ preview # e
  /\ preview' = e
  /\ UNCHANGED <<script, lastRightClickedElement, href, styles, sess>>
  /\ UNCHANGED capVars
  /\ UNCHANGED auxVars

\* ---------------------------------------------------------------------------
\* "click" generation: src/content.js:1-307
\* ---------------------------------------------------------------------------

\* extractHighResUrl leaving its try block on the slow path with value u:
\* normal = TRUE when waitForHighResUrl resolved (closePreview at line 252, then
\* the finally block), FALSE when the catch block returned null (finally only).
\* The finally block runs showPreview(hideStyle) and closePreview(); the
\* listener's then-callback sends the response.
ClickLeave(r, u, normal) ==
  Respond([r EXCEPT !.closes = r.closes + (IF normal THEN 2 ELSE 1),
                    !.phases = r.phases
                                 \o (IF ~normal THEN <<>>
                                     ELSE IF r.timedOut THEN <<"expired">>
                                     ELSE <<"resolved">>)
                                 \o <<"cleaned">>,
                    !.after = TRUE, !.removed = TRUE,
                    !.mech = r.mech \cup closePreview,
                    !.threw = ~normal], u)

\* Faulty ordering: the pre-clean closePreview() hoisted above the fast path.
FastReturnLate(r, u) == Respond([r EXCEPT !.fast = TRUE, !.closes = r.closes + 1], u)

\* The fast path found u: extractHighResUrl returns it before anything else.
FastReturn(r, u) == Respond([r EXCEPT !.fast = TRUE], u)

\* Faulty deadline test that lets the wait run for twice maxWait.
ExpiredLate(elapsed) == elapsed > MaxWait + MaxWait

\* The deadline test at the head of check(): Date.now() - startTime > maxWait
Expired(elapsed) == elapsed > MaxWait

\* onMessage listener up to the first await of extractHighResUrl.  hint is the
\* element a lookup by message.thumbnailUrl would find (NULL: none); the record
\* keeps it when no right-click reference is held.
RequestClick(s, hint) ==
  /\ script = "click"
  /\ sess[s].pc = "idle"
  /\ \A t \in Sessions : t < s => sess[t].pc # "idle"
  /\ lastRightClickedElement # NULL => hint = NULL
  /\ LET target == lastRightClickedElement
         r0 == [sess[s] EXCEPT !.target = target,
                               !.hint = IF target = NULL THEN hint ELSE NULL]
     IN IF target = NULL
        THEN \* message.thumbnailUrl is not read: null without a lookup
             /\ sess' = [sess EXCEPT ![s] = Respond(r0, NoUrl)]
             /\ UNCHANGED preview
        ELSE IF fastPath(target) # NoUrl
        THEN /\ sess' = [sess EXCEPT ![s] = FastReturn(r0, fastPath(target))]
             /\ UNCHANGED preview
        ELSE \* Step 0: pre-clean closePreview(), then await 50 ms
             /\ sess' = [sess EXCEPT ![s] = [r0 EXCEPT !.pc = "preclean",
                                                      !.closes = r0.closes + 1]]
             /\ preview' = NULL
  /\ UNCHANGED <<script, lastRightClickedElement, href, styles>>
  /\ UNCHANGED capVars
  /\ UNCHANGED auxVars

\* After the 50 ms pre-clean delay: hidePreview, triggerPreview, and the first
\* synchronous check() of waitForHighResUrl (elapsed 0).
AfterPreClean(s, f) ==
  /\ script = "click"
  /\ sess[s].pc = "preclean"
  /\ LET r0 == Activated(sess[s])
         sc == checkScan(f = "scan")
     IN IF f = "trigger"
        THEN \* triggerPreview threw: catch, finally
             /\ sess' = [sess EXCEPT ![s] = ClickLeave(r0, NoUrl, FALSE)]
             /\ styles' = showPreview(hidePreview(styles, s), s)
             /\ preview' = NULL
        ELSE IF sc.kind = "found"
        THEN /\ sess' = [sess EXCEPT
                          ![s] = ClickLeave(Observing(r0), sc.url, TRUE)]
             /\ styles' = showPreview(hidePreview(styles, s), s)
             /\ preview' = NULL
        ELSE IF sc.kind = "throw"
        THEN \* check() threw inside the promise executor: the promise rejects
             /\ sess' = [sess EXCEPT
                          ![s] = ClickLeave(Observing(r0), NoUrl, FALSE)]
             /\ styles' = showPreview(hidePreview(styles, s), s)
             /\ preview' = NULL
        ELSE \* requestAnimationFrame(check)
             /\ sess' = [sess EXCEPT ![s] = [Observing(r0) EXCEPT !.pc = "waiting"]]
             /\ styles' = hidePreview(styles, s)
             /\ UNCHANGED preview
  /\ UNCHANGED <<script, lastRightClickedElement, href>>
  /\ UNCHANGED capVars
  /\ UNCHANGED auxVars

\* An animation frame runs check().
Frame(s, f) ==
  /\ script = "click"
  /\ sess[s].pc = "waiting"
  /\ LET r0 == [sess[s] EXCEPT !.elapsed = sess[s].elapsed + PollStep]
         sc == checkScan(f = "scan")
     IN IF Expired(r0.elapsed)
        THEN /\ sess' = [sess EXCEPT
                          ![s] = ClickLeave([r0 EXCEPT !.timedOut = TRUE], NoUrl, TRUE)]
             /\ styles' = showPreview(styles, s)
             /\ preview' = NULL
        ELSE IF sc.kind = "found"
        THEN /\ sess' = [sess EXCEPT ![s] = ClickLeave(r0, sc.url, TRUE)]
             /\ styles' = showPreview(styles, s)
             /\ preview' = NULL
        ELSE IF sc.kind = "throw"
        THEN \* uncaught in the frame callback: no resolve, no further frame
             /\ sess' = [sess EXCEPT ![s] = [r0 EXCEPT !.pc = "hung", !.threw = TRUE]]
             /\ UNCHANGED <<styles, preview>>
        ELSE /\ sess' = [sess EXCEPT ![s] = r0]
             /\ UNCHANGED <<styles, preview>>
  /\ UNCHANGED <<script, lastRightClickedElement, href>>
  /\ UNCHANGED capVars
  /\ UNCHANGED auxVars

\* ---------------------------------------------------------------------------
\* "ghost" generation: src/unnamed/part_004:1-281
\* ---------------------------------------------------------------------------

\* removeHideStyle
removeHideStyle(st, s) == IF s \in st THEN st \ {s} ELSE st

\* injectHideStyle
injectHideStyle(st, s) == st \cup {s}

\* ghostClickAndExtract leaving its try block by an exception: the finally
\* block removes the style, the listener's catch block answers null.
GhostThrow(r) ==
  Respond([r EXCEPT !.removed = TRUE, !.threw = TRUE,
                    !.phases = Append(r.phases, "cleaned")], NoUrl)

\* extractFromPreviewPanel returned u: closePreviewPanel(), then await 100 ms.
GhostClose(r, u) ==
  [r EXCEPT !.pc = "closing", !.result = u, !.closes = r.closes + 1, !.after = TRUE,
            !.mech = r.mech \cup closePreviewPanel,
            !.phases = Append(r.phases, IF r.timedOut THEN "expired" ELSE "resolved")]

\* onMessage listener up to the first await; hint is the element the lookup by
\* message.thumbnailUrl finds (NULL when it finds none).
RequestGhost(s, hint, f) ==
  /\ script = "ghost"
  /\ sess[s].pc = "idle"
  /\ \A t \in Sessions : t < s => sess[t].pc # "idle"
  /\ lastRightClickedElement # NULL => hint = NULL
  /\ LET target == IF lastRightClickedElement # NULL
                   THEN lastRightClickedElement ELSE hint
         r0 == [sess[s] EXCEPT !.target = target]
         r1 == Activated(r0)
         sc == panelScan(f = "scan")
     IN IF target = NULL
        THEN /\ sess' = [sess EXCEPT ![s] = Respond(r0, NoUrl)]
             /\ UNCHANGED <<styles, preview>>
        ELSE IF f = "trigger"
        THEN /\ sess' = [sess EXCEPT ![s] = GhostThrow(r1)]
             /\ styles' = removeHideStyle(injectHideStyle(styles, s), s)
             /\ UNCHANGED preview
        ELSE IF sc.kind = "found"
        THEN /\ sess' = [sess EXCEPT ![s] = GhostClose(Observing(r1), sc.url)]
             /\ styles' = injectHideStyle(styles, s)
             /\ preview' = NULL
        ELSE IF sc.kind = "throw"
        THEN /\ sess' = [sess EXCEPT ![s] = GhostThrow(Observing(r1))]
             /\ styles' = removeHideStyle(injectHideStyle(styles, s), s)
             /\ UNCHANGED preview
        ELSE /\ sess' = [sess EXCEPT ![s] = [Observing(r1) EXCEPT !.pc = "waiting"]]
             /\ styles' = injectHideStyle(styles, s)
             /\ UNCHANGED preview
  /\ UNCHANGED <<script, lastRightClickedElement, href>>
  /\ UNCHANGED capVars
  /\ UNCHANGED auxVars

\* The 100 ms delay of the poll loop ends: the while condition, then one scan.
Poll(s, f) ==
  /\ script = "ghost"
  /\ sess[s].pc = "waiting"
  /\ LET r0 == [sess[s] EXCEPT !.elapsed = sess[s].elapsed + PollStep]
         sc == panelScan(f = "scan")
     IN IF ~(r0.elapsed < MaxWait)
        THEN /\ sess' = [sess EXCEPT
                          ![s] = GhostClose([r0 EXCEPT !.timedOut = TRUE], NoUrl)]
             /\ preview' = NULL
             /\ UNCHANGED styles
        ELSE IF sc.kind = "found"
        THEN /\ sess' = [sess EXCEPT ![s] = GhostClose(r0, sc.url)]
             /\ preview' = NULL
             /\ UNCHANGED styles
        ELSE IF sc.kind = "throw"
        THEN /\ sess' = [sess EXCEPT ![s] = GhostThrow(r0)]
             /\ styles' = removeHideStyle(styles, s)
             /\ UNCHANGED preview
        ELSE /\ sess' = [sess EXCEPT ![s] = r0]
             /\ UNCHANGED <<styles, preview>>
  /\ UNCHANGED <<script, lastRightClickedElement, href>>
  /\ UNCHANGED capVars
  /\ UNCHANGED auxVars

\* After the 100 ms closing delay: return, finally, and the listener's answer.
AfterClose(s) ==
  /\ script = "ghost"
  /\ sess[s].pc = "closing"
  /\ LET r0 == Phase([sess[s] EXCEPT !.removed = TRUE], "cleaned")
     IN sess' = [sess EXCEPT ![s] =
                   Respond(r0, IF r0.result # NoUrl
                               THEN stripSizingParameters(r0.result) ELSE NoUrl)]
  /\ styles' = removeHideStyle(styles, s)
  /\ UNCHANGED <<script, lastRightClickedElement, href, preview>>
  /\ UNCHANGED capVars
  /\ UNCHANGED auxVars

\* ---------------------------------------------------------------------------
\* "observer" generations: src/content.js:309-1022, src/unnamed/part_004:283-1075
\* ---------------------------------------------------------------------------

\* A variant that dispatches the wake-up press before connecting the observer
pressFirst == <<"press", "observe">>

\* STEP 2 and STEP 3 of the contextmenu listener: observer.observe(container),
\* then pointerdown / mousedown at the container
wakeUpSteps == <<"observe", "press">>

\* First idle capture slot
FreeCapture(c) ==
  /\ cap[c].pc = "idle"
  /\ \A d \in Captures : d < c => cap[d].pc # "idle"

\* getBestUrl / extractUrlFromAttribute on the container's metadata attribute
getBestUrl(e) == IF attr[e] THEN Url(e) ELSE NoUrl

\* contextmenu listener of content.js:379-471.  It resets the slot and stores
\* the target at once; STEP 1 returns when the attribute already has a URL,
\* otherwise it connects the observer, dispatches pointerdown / mousedown and
\* arms the 1.5 s safety timeout.
ContextMenuObserver(c, e) ==
  /\ script = "observer"
  /\ FreeCapture(c)
  /\ clicked' = e
  /\ lastRightClickedElement' = e
  /\ IF getBestUrl(e) # NoUrl
     THEN /\ capturedHighResUrl' = getBestUrl(e)
          /\ cap' = [cap EXCEPT ![c] = [IdleCapture EXCEPT !.pc = "settled",
                                          !.container = e, !.accepted = TRUE,
                                          !.stores = 1]]
     ELSE /\ capturedHighResUrl' = NoUrl
          /\ cap' = [cap EXCEPT ![c] = [IdleCapture EXCEPT !.pc = "watching",
                                          !.container = e, !.connected = TRUE,
                                          !.timer = TRUE, !.steps = wakeUpSteps]]
  /\ UNCHANGED <<script, href, preview, styles, sess, attr>>
  /\ UNCHANGED auxVars

\* The observers that a change of e's container attribute notifies
Watchers(e) == {c \in Captures : cap[c].connected /\ cap[c].container = e}

\* The host page fills in a container's metadata attribute; the MutationObserver
\* callbacks run as microtasks of the same task: each stores the URL, marks
\* itself resolved and disconnects.
HostSetAttr(e) ==
  /\ ~attr[e]
  /\ attr' = [attr EXCEPT ![e] = TRUE]
  /\ capturedHighResUrl' = IF Watchers(e) # {} THEN Url(e) ELSE capturedHighResUrl
  /\ cap' = [c \in Captures |->
               IF c \in Watchers(e)
               THEN [cap[c] EXCEPT !.connected = FALSE, !.resolved = TRUE,
                                   !.accepted = TRUE, !.stores = cap[c].stores + 1]
               ELSE cap[c]]
  /\ UNCHANGED <<script, lastRightClickedElement, href, preview, styles, sess, clicked>>
  /\ UNCHANGED auxVars

\* A final check that does not look at the slot
finalCheckAlways(c) == getBestUrl(cap[c].container) # NoUrl

\* The final check of the safety timeout (content.js:455-469): only when the
\* slot is empty, the container's attribute is read once more
finalCheck(c) ==
  capturedHighResUrl = NoUrl /\ getBestUrl(cap[c].container) # NoUrl

\* The 1.5 s safety timeout of content.js:452-470: disconnect, then a final
\* check of the container when the slot is empty.
TimeoutObserver(c) ==
  /\ script = "observer"
  /\ cap[c].timer
  /\ LET final == finalCheck(c)
     IN /\ capturedHighResUrl' = IF final THEN getBestUrl(cap[c].container)
                                 ELSE capturedHighResUrl
        /\ cap' = [cap EXCEPT ![c] = [@ EXCEPT !.pc = "settled", !.timer = FALSE,
                                         !.connected = FALSE,
                                         !.accepted = @ \/ final,
                                         !.stores = IF final THEN cap[c].stores + 1
                                                    ELSE cap[c].stores]]
  /\ UNCHANGED <<script, lastRightClickedElement, href, preview, styles, sess,
                 attr, clicked>>
  /\ UNCHANGED auxVars

\* contextmenu listener of part_004:400-524 up to its await.  The target is
\* stored at once only on the early returns; otherwise after the await.
ContextMenuObserver4(c, e) ==
  /\ script = "observer4"
  /\ FreeCapture(c)
  /\ clicked' = e
  /\ IF getBestUrl(e) # NoUrl
     THEN /\ capturedHighResUrl' = getBestUrl(e)
          /\ lastRightClickedElement' = e
          /\ cap' = [cap EXCEPT ![c] = [IdleCapture EXCEPT !.pc = "settled",
                                          !.container = e, !.accepted = TRUE,
                                          !.stores = 1]]
     ELSE /\ capturedHighResUrl' = NoUrl
          /\ UNCHANGED lastRightClickedElement
          /\ cap' = [cap EXCEPT ![c] = [IdleCapture EXCEPT !.pc = "watching",
                                          !.container = e, !.connected = TRUE,
                                          !.timer = TRUE, !.interval = TRUE,
                                          !.steps = wakeUpSteps]]
  /\ UNCHANGED <<script, href, preview, styles, sess, attr>>
  /\ UNCHANGED auxVars

\* A 50 ms interval tick that sees observerResolved: clearInterval, resolve();
\* the listener resumes: pointerup / mouseup, lastRightClickedElement = target.
IntervalObserver4(c) ==
  /\ script = "observer4"
  /\ cap[c].interval
  /\ cap[c].resolved
  /\ cap' = [cap EXCEPT ![c] = [@ EXCEPT !.pc = "settled", !.interval = FALSE,
                                      !.steps = Append(cap[c].steps, "release")]]
  /\ lastRightClickedElement' = cap[c].container
  /\ UNCHANGED <<script, href, preview, styles, sess, capturedHighResUrl, attr,
                 clicked>>
  /\ UNCHANGED auxVars

\* The 1 s timeout of part_004:496-509: clearInterval, a final check when the
\* observer has not resolved, disconnect, resolve().  An interval tick that is
\* due runs first (it was registered first).
TimeoutObserver4(c) ==
  /\ script = "observer4"
  /\ cap[c].timer
  /\ ~(cap[c].interval /\ cap[c].resolved)
  /\ LET final == ~cap[c].resolved /\ getBestUrl(cap[c].container) # NoUrl
     IN /\ capturedHighResUrl' = IF final THEN getBestUrl(cap[c].container)
                                 ELSE capturedHighResUrl
        /\ cap' = [cap EXCEPT ![c] = [@ EXCEPT !.pc = "settled", !.timer = FALSE,
                                         !.interval = FALSE, !.connected = FALSE,
                                         !.accepted = @ \/ final,
                                         !.stores = IF final THEN cap[c].stores + 1
                                                    ELSE cap[c].stores,
                                         !.steps = IF cap[c].pc = "watching"
                                                   THEN Append(cap[c].steps, "release")
                                                   ELSE cap[c].steps]]
  /\ lastRightClickedElement' =
       IF cap[c].pc = "watching" THEN cap[c].container ELSE lastRightClickedElement
  /\ UNCHANGED <<script, href, preview, styles, sess, attr, clicked>>
  /\ UNCHANGED auxVars

\* getUrlFromPreviewPanel (content.js:620-654): the preview image, else the
\* first a[href*="imgurl="] of the document.  thr: the link loop raises
\* (extractFromImgurl calls href.includes at line 548 outside its try; the href
\* of an SVG anchor is no string).
getUrlFromPreviewPanel(thr) ==
  IF preview # NULL THEN [kind |-> "found", url |-> Url(preview)]
  ELSE IF thr THEN [kind |-> "throw", url |-> NoUrl]
  ELSE IF FirstLink({"imgurl"}) # NULL
       THEN [kind |-> "found", url |-> Url(FirstLink({"imgurl"}))]
  ELSE [kind |-> "none", url |-> NoUrl]

\* The synchronous strategies of getHighResUrl (1 to 5): the target's own
\* metadata attribute and anchor, then the preview panel.
passiveScan(t, thr) ==
  IF getBestUrl(t) # NoUrl THEN [kind |-> "found", url |-> getBestUrl(t)]
  ELSE IF href[t] = "imgurl" THEN [kind |-> "found", url |-> Url(t)]
  ELSE getUrlFromPreviewPanel(thr)

\* The async block of the listener answering with what getHighResUrl returned.
Answer(r, u) ==
  Respond(r, IF u # NoUrl THEN stripSizingParameters(u) ELSE NoUrl)

\* The async block of the observer listeners has no catch: when getHighResUrl
\* raises or never settles, sendResponse is not called.
Unanswered(r) == [r EXCEPT !.pc = "hung", !.threw = TRUE]

\* onMessage listener of the observer generations (content.js:968-1019,
\* part_004:1021-1072) up to the first await.  hint: the element that the
\* lookup by message.thumbnailUrl finds; the background sends the address of
\* the image that was right-clicked.
RequestObserver(s, hint, f) ==
  /\ script \in {"observer", "observer4"}
  /\ sess[s].pc = "idle"
  /\ \A t \in Sessions : t < s => sess[t].pc # "idle"
  /\ (lastRightClickedElement # NULL \/ capturedHighResUrl # NoUrl) => hint = NULL
  /\ clicked # NULL => hint \in {NULL, clicked}
  /\ capturedHighResUrl # NoUrl => f = "none"
  /\ LET target == IF lastRightClickedElement # NULL
                   THEN lastRightClickedElement ELSE hint
         r0 == [sess[s] EXCEPT !.asked = clicked, !.hint = hint]
         r1 == [r0 EXCEPT !.target = target]
     IN IF capturedHighResUrl # NoUrl
        THEN \* PRIORITY 1: the pre-captured URL, then clear the slot
             /\ sess' = [sess EXCEPT
                  ![s] = Answer([r0 EXCEPT !.target = capturedHighResUrl.owner],
                                capturedHighResUrl)]
             /\ capturedHighResUrl' = NoUrl
        ELSE /\ UNCHANGED capturedHighResUrl
             /\ IF target = NULL
                THEN sess' = [sess EXCEPT ![s] = Answer(r1, NoUrl)]
                ELSE LET scan == passiveScan(target, f = "scan")
                     IN sess' = [sess EXCEPT ![s] =
                          IF scan.kind = "found" THEN Answer(r1, scan.url)
                          ELSE IF scan.kind = "throw" THEN Unanswered(r1)
                          ELSE \* Strategy 6: mouseenter / mouseover, 150 ms wait
                               [r1 EXCEPT !.pc = "hover"]]
  /\ UNCHANGED <<script, lastRightClickedElement, href, preview, styles, attr,
                 cap, clicked>>
  /\ UNCHANGED auxVars

\* simulateHoverAndExtract's timer: the target's attributes again; failing
\* that, Strategy 7 clicks the thumbnail and waits 300 ms.
AfterHover(s) ==
  /\ script \in {"observer", "observer4"}
  /\ sess[s].pc = "hover"
  /\ sess' = [sess EXCEPT ![s] =
       IF getBestUrl(sess[s].target) # NoUrl
       THEN Answer(sess[s], getBestUrl(sess[s].target))
       ELSE [sess[s] EXCEPT !.pc = "clickwait", !.trig = TRUE]]
  /\ UNCHANGED <<script, lastRightClickedElement, href, preview, styles>>
  /\ UNCHANGED capVars
  /\ UNCHANGED auxVars

\* clickAndExtract's timer: getUrlFromPreviewPanel, Escape, resolve.  When the
\* scan raises inside the timer callback the promise never resolves and the
\* Escape is not dispatched.
AfterClickWait(s, f) ==
  /\ script \in {"observer", "observer4"}
  /\ sess[s].pc = "clickwait"
  /\ LET scan == getUrlFromPreviewPanel(f = "scan")
     IN IF scan.kind = "throw"
        THEN /\ sess' = [sess EXCEPT ![s] = Unanswered(sess[s])]
             /\ UNCHANGED preview
        ELSE /\ sess' = [sess EXCEPT ![s] =
                  Answer([sess[s] EXCEPT !.closes = sess[s].closes + 1,
                                         !.after = TRUE,
                                         !.mech = sess[s].mech \cup closePreview],
                         scan.url)]
             /\ preview' = NULL
  /\ UNCHANGED <<script, lastRightClickedElement, href, styles>>
  /\ UNCHANGED capVars
  /\ UNCHANGED auxVars

\* ---------------------------------------------------------------------------
\* URL Normalizer: stripSizingParameters on the text of an address
\* (src/content.js:499-512; src/unnamed/part_002:227-233 has the first three
\* replacements only)
\* ---------------------------------------------------------------------------

\* An address is a sequence of tokens: "https:", "/", "/", a host, then what
\* follows the host.  "seg" is ordinary text without "/" or "="; the other
\* tokens are the texts the regular expressions look for:
\*   "=wN" =w<digits>   "-hN" -h<digits>   "=sN" =s<digits>   "=hN" =h<digits>
\*   "-flag" -<letters>   "wN-hN" w<digits>-h<digits>   "sN" s<digits>
TailTokens == {"/", "seg", "sN", "wN-hN", "=wN", "-hN", "=sN", "=hN", "-flag"}

\* Host names: an ordinary one, and a single-label host such as s3
HostTokens == {"host", "sN"}

SeqsUpTo(S, n) == UNION {[1..k -> S] : k \in 0..n}

\* Well-formed absolute addresses: after the host, nothing or a path
Addresses ==
  {<<"https:", "/", "/", h>> \o t :
     h \in HostTokens,
     t \in {x \in SeqsUpTo(TailTokens, MaxTail) : x = <<>> \/ x[1] = "/"}}

\* (-[a-z-]+)?$ : from position i on, only -<letters> runs up to the end
FlagsToEnd(u, i) == \A j \in i..Len(u) : u[j] = "-flag"

\* The text from position i to the end matches head(-h\d+)?(-[a-z-]+)?$ when
\* withH, head(-[a-z-]+)?$ otherwise
SuffixAt(u, i, head, withH) ==
  /\ u[i] = head
  /\ \/ FlagsToEnd(u, i + 1)
     \/ withH /\ i + 1 <= Len(u) /\ u[i + 1] = "-hN" /\ FlagsToEnd(u, i + 2)

\* url.replace(/head.../i, ''): the leftmost match is removed
stripSuffix(u, head, withH) ==
  LET at == {i \in 1..Len(u) : SuffixAt(u, i, head, withH)}
  IN IF at = {} THEN u
     ELSE SubSeq(u, 1, (CHOOSE i \in at : \A j \in at : i <= j) - 1)

\* cleaned.replace(/\/mid\//, '/'): the first "/mid/" becomes "/"
stripSegment(u, mid) ==
  LET at == {i \in 1..(Len(u) - 2) :
               u[i] = "/" /\ u[i + 1] = mid /\ u[i + 2] = "/"}
  IN IF at = {} THEN u
     ELSE LET i == CHOOSE i \in at : \A j \in at : i <= j
          IN SubSeq(u, 1, i) \o SubSeq(u, i + 3, Len(u))

\* The three trailing replacements, in the source's order: =w, =s, =h
stripSuffixes(u) ==
  stripSuffix(stripSuffix(stripSuffix(u, "=wN", TRUE), "=sN", FALSE), "=hN", FALSE)

\* stripSizingParameters of content.js: trailing, then mid-URL /w-h/, then /s/
stripSizingText(u) ==
  stripSegment(stripSegment(stripSuffixes(u), "wN-hN"), "sN")

\* Scheme and host of an address as a URL parser reads them
SchemeOf(u) == IF Len(u) >= 1 THEN u[1] ELSE "none"
HostOf(u) ==
  IF Len(u) >= 4 /\ u[2] = "/" /\ u[3] = "/" /\ u[4] # "/" THEN u[4] ELSE "none"

\* The normalizer of the loaded generation applied to an address
normalize(fn, u) == IF fn = "part_002" THEN stripSuffixes(u) ELSE stripSizingText(u)

InitNormalizer ==
  /\ script = "none"
  /\ InitDoc
  /\ clicks = <<>>
  /\ studio = NoStudio
  /\ calc \in {[pc |-> "in", fn |-> f, url |-> u, once |-> <<>>, twice |-> <<>>] :
                 f \in {"content", "part_002"}, u \in Addresses}

\* finalUrl = stripSizingParameters(url)
Normalize ==
  /\ calc.pc = "in"
  /\ calc' = [calc EXCEPT !.pc = "once", !.once = normalize(calc.fn, calc.url)]
  /\ UNCHANGED <<docVars, capVars, clicks, studio>>

\* The result handed to stripSizingParameters once more
NormalizeAgain ==
  /\ calc.pc = "once"
  /\ calc' = [calc EXCEPT !.pc = "twice", !.twice = normalize(calc.fn, calc.once)]
  /\ UNCHANGED <<docVars, capVars, clicks, studio>>

NextNormalizer == Normalize \/ NormalizeAgain

SpecNormalizer == InitNormalizer /\ [][NextNormalizer]_vars

\* ---------------------------------------------------------------------------
\* Candidate filters: which addresses each resolution path accepts
\* ---------------------------------------------------------------------------

\* isValidOriginalUrl: url.length < 20 is rejected
MinLength == 20

\* What decides a filter about an address: its scheme, the host pattern its
\* text contains, its length, whether it ends in an image extension, and (for
\* a preview image) whether the image is large.
Schemes == {"https", "http", "javascript"}
Patterns == {"none", "gstatic.com", "googleusercontent.com", "ggpht.com",
             "encrypted-tbn", "googleapis.com"}
Lengths == {MinLength - 3, MinLength, MinLength + 20}
\* (an address that contains a host pattern is not a short one)
Candidates ==
  {c \in [scheme : Schemes, pat : Patterns, len : Lengths,
          ext : BOOLEAN, large : BOOLEAN] :
     c.pat # "none" => c.len >= MinLength}

\* The host patterns of the spec's denylist
Denylisted == {"gstatic.com", "googleusercontent.com", "ggpht.com", "encrypted-tbn"}

\* url.startsWith('http')
startsWithHttp(c) == c.scheme \in {"https", "http"}

\* isDirectImageUrl (content.js:17-39)
isDirectImageUrl(c) ==
  /\ startsWithHttp(c)
  /\ c.pat \notin {"encrypted-tbn", "gstatic.com", "googleusercontent.com", "ggpht.com"}
  /\ c.ext

\* isGoogleThumbnail (content.js:517-528)
isGoogleThumbnail(c) ==
  c.pat \in {"encrypted-tbn", "gstatic.com", "googleusercontent.com", "ggpht.com",
             "googleapis.com"}

\* isValidOriginalUrl (content.js:533-542)
isValidOriginalUrl(c) ==
  /\ startsWithHttp(c)
  /\ ~isGoogleThumbnail(c)
  /\ ~(c.len < MinLength)

\* getBestUrl's urlPattern and filter (content.js:339-351)
bestUrlCandidate(c) ==
  /\ startsWithHttp(c) /\ c.ext
  /\ c.pat \notin {"gstatic.com", "googleusercontent.com", "encrypted-tbn",
                   "ggpht.com", "googleapis.com"}

\* extractFromPreviewPanel, preview image (part_004:111-127)
previewImageAccepted(c) ==
  /\ startsWithHttp(c)
  /\ c.pat \notin {"gstatic.com", "googleusercontent.com", "encrypted-tbn", "ggpht.com"}
  /\ c.large

\* extractFromPreviewPanel, imgurl link (part_004:142-148): the imgurl value is
\* only tested for 'gstatic' and 'googleusercontent'
previewLinkAccepted(c) ==
  c.pat \notin {"gstatic.com", "googleusercontent.com"}

Filters == {"isDirectImageUrl", "isValidOriginalUrl", "getBestUrl",
            "previewImage", "previewLink"}

accepts(f, c) ==
  IF f = "isDirectImageUrl" THEN isDirectImageUrl(c)
  ELSE IF f = "isValidOriginalUrl" THEN isValidOriginalUrl(c)
  ELSE IF f = "getBestUrl" THEN bestUrlCandidate(c)
  ELSE IF f = "previewImage" THEN previewImageAccepted(c)
  ELSE previewLinkAccepted(c)

InitFilter ==
  /\ script = "none"
  /\ InitDoc
  /\ clicks = <<>>
  /\ studio = NoStudio
  /\ calc \in {[pc |-> "in", filter |-> f, cand |-> c, accepted |-> FALSE] :
                 f \in Filters, c \in Candidates}

\* A resolution path tests a candidate address and returns it if accepted
ApplyFilter ==
  /\ calc.pc = "in"
  /\ calc' = [calc EXCEPT !.pc = "out", !.accepted = accepts(calc.filter, calc.cand)]
  /\ UNCHANGED <<docVars, capVars, clicks, studio>>

NextFilter == ApplyFilter

SpecFilter == InitFilter /\ [][NextFilter]_vars

\* ---------------------------------------------------------------------------
\* Candidate ranking: which candidate of a metadata payload is selected
\* ---------------------------------------------------------------------------

\* Candidates found in one payload, in order of appearance.  Each is a distinct
\* address accepted by the filter, with the length of its text and the pixel
\* area of its [url, width, height] entry (0: no dimension data).
CandNames == 1..MaxPayload
UrlLengths == {40, 95}
PixelAreas == {0, 300 * 200, 1200 * 800}
Ranked == [name : CandNames, len : UrlLengths, pixels : PixelAreas]

\* Payloads: one to MaxPayload candidates with distinct addresses
Payloads ==
  {q \in SeqsUpTo(Ranked, MaxPayload) :
     /\ Len(q) >= 1
     /\ \A i, j \in 1..Len(q) : i # j => q[i].name # q[j].name}

\* The same candidates enumerated in another order
Reorderings(q) ==
  {r \in Payloads :
     Len(r) = Len(q) /\ {r[i] : i \in 1..Len(r)} = {q[i] : i \in 1..Len(q)}}

Rankers == {"getBestUrl", "extractOriginalUrls", "extractUrlFromAttribute"}

\* The comparator of each candidates.sort(...): a sorts before b
\*   getBestUrl               b.length - a.length
\*   extractOriginalUrls      (b.width * b.height) - (a.width * a.height)
\*   extractUrlFromAttribute  pixels, then url.length
sortsBefore(fn, a, b) ==
  IF fn = "getBestUrl" THEN a.len > b.len
  ELSE IF fn = "extractOriginalUrls" THEN a.pixels > b.pixels
  ELSE a.pixels > b.pixels \/ (a.pixels = b.pixels /\ a.len > b.len)

\* candidates.sort(...)[0]: Array.prototype.sort is stable, so the head of the
\* sorted array is the first candidate, in order of appearance, that no other
\* candidate sorts before.
selectBest(fn, q) ==
  LET top == {i \in 1..Len(q) : \A j \in 1..Len(q) : ~sortsBefore(fn, q[j], q[i])}
  IN q[CHOOSE i \in top : \A j \in top : i <= j]

InitRanker ==
  /\ script = "none"
  /\ InitDoc
  /\ clicks = <<>>
  /\ studio = NoStudio
  /\ \E f \in Rankers, q \in Payloads :
       \E r \in Reorderings(q) :
         calc = [pc |-> "in", ranker |-> f, payload |-> q, reordered |-> r,
                 selected |-> NULL, again |-> NULL]

\* The ranker run on the payload, and on the same candidates in another order
Rank ==
  /\ calc.pc = "in"
  /\ calc' = [calc EXCEPT !.pc = "out",
                          !.selected = selectBest(calc.ranker, calc.payload),
                          !.again = selectBest(calc.ranker, calc.reordered)]
  /\ UNCHANGED <<docVars, capVars, clicks, studio>>

NextRanker == Rank

SpecRanker == InitRanker /\ [][NextRanker]_vars

\* ---------------------------------------------------------------------------
\* The background router: chrome.contextMenus.onClicked (src/upscale.js)
\* ---------------------------------------------------------------------------

CONTEXT_MENU_ID == "hires-open-original"
MenuItems == {CONTEXT_MENU_ID, "hires-upscale", "other"}
\* info.srcUrl: absent, or the address of the thumbnail
SrcUrls == {"", "thumbnail"}

\* handleFinalUrl(url): the tab created for the final address
handleFinalUrl(action, url) ==
  IF action = "hires-upscale" THEN [page |-> "upscale.html", url |-> url]
  ELSE [page |-> "image", url |-> url]

\* A variant without the else: the thumbnail is opened as well
openForBoth(c, originalUrl) ==
  [c EXCEPT !.pc = "done",
            !.last = IF originalUrl = "" THEN "null" ELSE "original",
            !.tabs = IF originalUrl = ""
                     THEN Append(@, handleFinalUrl(c.action, c.thumb))
                     ELSE Append(Append(@, handleFinalUrl(c.action, originalUrl)),
                                 handleFinalUrl(c.action, c.thumb))]

\* if (response && response.originalUrl) handleFinalUrl(response.originalUrl)
\* else handleFinalUrl(thumbnailUrl)
openFor(c, originalUrl) ==
  [c EXCEPT !.pc = "done",
            !.last = IF originalUrl = "" THEN "null" ELSE "original",
            !.tabs = Append(@, handleFinalUrl(c.action,
                                IF originalUrl = "" THEN c.thumb ELSE originalUrl))]

\* The listener up to its first await: menu item, srcUrl and page tests, then
\* the first sendMessage
onClicked(k) ==
  /\ clicks[k].pc = "idle"
  /\ \E item \in MenuItems, src \in SrcUrls, images \in BOOLEAN :
       LET c == [clicks[k] EXCEPT !.action = item, !.thumb = src] IN
       clicks' = [clicks EXCEPT ![k] =
         IF item \notin {CONTEXT_MENU_ID, "hires-upscale"}
           THEN [c EXCEPT !.pc = "done", !.last = "ignored"]
         ELSE IF src = ""
           THEN [c EXCEPT !.pc = "done", !.last = "no image"]
         ELSE IF ~images
           THEN [c EXCEPT !.pc = "done", !.last = "other page",
                          !.tabs = Append(@, handleFinalUrl(item, src))]
         ELSE [c EXCEPT !.pc = "sent", !.tries = 1]]
  /\ UNCHANGED <<docVars, capVars, calc, studio>>

\* sendMessage resolves (first attempt or retry) with { originalUrl } or with
\* nothing usable
Response(k) ==
  /\ clicks[k].pc = "sent"
  /\ \E originalUrl \in {"", "original"} :
       clicks' = [clicks EXCEPT ![k] = openFor(clicks[k], originalUrl)]
  /\ UNCHANGED <<docVars, capVars, calc, studio>>

\* The first sendMessage rejects: catch (error), executeScript is started
SendFailed(k) ==
  /\ clicks[k].pc = "sent"
  /\ clicks[k].tries = 1
  /\ clicks' = [clicks EXCEPT ![k].pc = "injecting",
                              ![k].injected = clicks[k].injected + 1]
  /\ UNCHANGED <<docVars, capVars, calc, studio>>

\* executeScript resolves: the 100 ms timer is started
Injected(k) ==
  /\ clicks[k].pc = "injecting"
  /\ clicks' = [clicks EXCEPT ![k].pc = "waiting"]
  /\ UNCHANGED <<docVars, capVars, calc, studio>>

\* The timer fires: the retry is sent
Initialized(k) ==
  /\ clicks[k].pc = "waiting"
  /\ clicks' = [clicks EXCEPT ![k].pc = "sent", ![k].tries = 2]
  /\ UNCHANGED <<docVars, capVars, calc, studio>>

\* A variant of the retry handler that gives up without opening a tab
RetryFailedSilent(k) ==
  /\ \/ clicks[k].pc = "injecting"
     \/ clicks[k].pc = "sent" /\ clicks[k].tries = 2
  /\ clicks' = [clicks EXCEPT ![k].pc = "done", ![k].last = "failed"]
  /\ UNCHANGED <<docVars, capVars, calc, studio>>

\* executeScript or the retried sendMessage rejects: catch (retryError),
\* handleFinalUrl(thumbnailUrl)
RetryFailed(k) ==
  /\ \/ clicks[k].pc = "injecting"
     \/ clicks[k].pc = "sent" /\ clicks[k].tries = 2
  /\ clicks' = [clicks EXCEPT ![k].pc = "done", ![k].last = "failed",
                              ![k].tabs = Append(@, handleFinalUrl(clicks[k].action,
                                                                   clicks[k].thumb))]
  /\ UNCHANGED <<docVars, capVars, calc, studio>>

InitRouter ==
  /\ script = "none"
  /\ InitDoc
  /\ calc = NoCalc
  /\ clicks = [k \in Clicks |-> IdleClick]
  /\ studio = NoStudio

NextRouter ==
  \E k \in Clicks :
    \/ onClicked(k)
    \/ Response(k)
    \/ SendFailed(k)
    \/ Injected(k)
    \/ Initialized(k)
    \/ RetryFailed(k)

SpecRouter == InitRouter /\ [][NextRouter]_vars

\* ---------------------------------------------------------------------------
\* Upscale Studio page (src/upscale.js:1-505; src/unnamed/part_000 is the
\* generation with a built-in key)
\* ---------------------------------------------------------------------------

StudioVersions == {"upscale.js", "part_000"}
DEFAULT_KEY == "DEFAULT_KEY"
\* What the user can enter in the configuration prompt after "<service>:"
EnteredKeys == {"", "user key"}

\* The scale buttons of the page
Scales == {2, 4}

\* The page after init() has called loadSourceImage(imageUrl)
LoadingStudio(v) ==
  [version |-> v, pc |-> "loading", apiKey |-> "", notice |-> FALSE,
   error |-> FALSE, upscaled |-> FALSE, used |-> {}, runs |-> 0,
   selectedScale |-> 2]

\* handleProcess up to its await: the loading state, then upscaleImage reads
\* chrome.storage.sync
handleProcess(st) ==
  [st EXCEPT !.pc = "sending", !.runs = st.runs + 1, !.error = FALSE]

\* showError(message)
showError(st) == [st EXCEPT !.pc = "ready", !.error = TRUE]

\* showApiKeyRequired()
showApiKeyRequired(st) == [st EXCEPT !.pc = "ready", !.notice = TRUE]

\* The key upscaleImage hands to the provider call ("": it throws instead)
keyFor(st) ==
  IF st.version = "part_000" /\ st.apiKey = "" THEN DEFAULT_KEY ELSE st.apiKey

InitStudio ==
  /\ script = "none"
  /\ InitDoc
  /\ calc = NoCalc
  /\ clicks = <<>>
  /\ \E v \in StudioVersions : studio = LoadingStudio(v)

\* img.onload of loadSourceImage: the button is enabled; upscale.js then reads
\* the stored key
SourceLoaded ==
  /\ studio.pc = "loading"
  /\ studio' = [studio EXCEPT
                  !.pc = IF studio.version = "upscale.js" THEN "checking" ELSE "ready"]
  /\ UNCHANGED <<docVars, capVars, calc, clicks>>

\* The chrome.storage.sync.get callback of loadSourceImage (upscale.js:69-77)
KeyChecked ==
  /\ studio.pc = "checking"
  /\ studio' = IF studio.apiKey # "" THEN handleProcess(studio)
               ELSE showApiKeyRequired(studio)
  /\ UNCHANGED <<docVars, capVars, calc, clicks>>

\* The user clicks a scale button (setupScaleSelector)
ScaleSelected ==
  /\ studio.pc \notin {"none", "loading"}
  /\ \E n \in Scales \ {studio.selectedScale} :
       studio' = [studio EXCEPT !.selectedScale = n]
  /\ UNCHANGED <<docVars, capVars, calc, clicks>>

\* The user clicks the process button
ProcessClicked ==
  /\ studio.pc = "ready"
  /\ studio.runs < MaxRuns
  /\ studio' = handleProcess(studio)
  /\ UNCHANGED <<docVars, capVars, calc, clicks>>

\* upscaleImage after the stored configuration is read: without a key it
\* throws (handleProcess shows the error), otherwise the request goes out
upscaleImage ==
  /\ studio.pc = "sending"
  /\ studio' = IF keyFor(studio) = "" THEN showError(studio)
               ELSE [studio EXCEPT !.pc = "waiting", !.used = @ \cup {keyFor(studio)}]
  /\ UNCHANGED <<docVars, capVars, calc, clicks>>

\* The provider answers, or the request fails
ProviderAnswered ==
  /\ studio.pc = "waiting"
  /\ \E ok \in BOOLEAN :
       studio' = IF ok THEN [studio EXCEPT !.pc = "ready", !.upscaled = TRUE]
                 ELSE showError(studio)
  /\ UNCHANGED <<docVars, capVars, calc, clicks>>

\* showApiConfig while the page is at rest: the entered key is stored;
\* upscale.js then starts processing when nothing has been upscaled yet
showApiConfig ==
  /\ studio.pc = "ready"
  /\ studio.runs < MaxRuns
  /\ \E key \in EnteredKeys :
       LET st == [studio EXCEPT !.apiKey = key]
       IN studio' = IF st.version = "upscale.js" /\ ~st.upscaled
                    THEN handleProcess(st) ELSE st
  /\ UNCHANGED <<docVars, capVars, calc, clicks>>

NextStudio ==
  \/ SourceLoaded
  \/ KeyChecked
  \/ ScaleSelected
  \/ ProcessClicked
  \/ upscaleImage
  \/ ProviderAnswered
  \/ showApiConfig

SpecStudio == InitStudio /\ [][NextStudio]_vars

\* ---------------------------------------------------------------------------
\* The synthetic interaction: which events are dispatched, where, in what order
\* ---------------------------------------------------------------------------

\* The target and its ancestors: position 1 is the right-clicked image, position
\* i + 1 the parent of position i.  Each carries some of the attributes that the
\* closest(...) selectors look for.
Marks == {"a[href]", "[jsaction*=click]", "[data-ved]", "div[data-i]"}
Positions == 1..(MaxDepth + 1)
Chains == [Positions -> SUBSET Marks]

\* element.closest(selector): the element itself or its nearest ancestor that
\* matches, NULL when none does
closest(chain, mark) ==
  IF \E i \in Positions : mark \in chain[i]
  THEN CHOOSE i \in Positions :
         mark \in chain[i] /\ \A j \in Positions : mark \in chain[j] => i <= j
  ELSE NULL

\* closest('a[href]') || closest('[jsaction*="click"]') || closest('[data-ved]')
\* || element
clickableOf(chain) ==
  IF closest(chain, "a[href]") # NULL THEN closest(chain, "a[href]")
  ELSE IF closest(chain, "[jsaction*=click]") # NULL
       THEN closest(chain, "[jsaction*=click]")
  ELSE IF closest(chain, "[data-ved]") # NULL THEN closest(chain, "[data-ved]")
  ELSE 1

\* The events of one dispatch run at one element
dispatchAll(types, at) == [i \in 1..Len(types) |-> [type |-> types[i], at |-> at]]

\* triggerPreview (content.js) and triggerGooglePreview (part_002): the full
\* sequence at the clickable element
fullSequence == <<"pointerdown", "mousedown", "pointerup", "mouseup", "click">>

\* The wake-up events of the part_004 contextmenu listener before its await:
\* the press at the container, then at the image itself
wakeUp(chain) ==
  dispatchAll(<<"pointerdown", "mousedown">>, closest(chain, "div[data-i]"))
    \o dispatchAll(<<"pointerdown", "mousedown">>, 1)

\* ... and after it: the release at the container
completeCycle(chain) ==
  dispatchAll(<<"pointerup", "mouseup">>, closest(chain, "div[data-i]"))

Triggers == {"triggerPreview", "triggerGooglePreview", "wake-up"}

InitTrigger ==
  /\ script = "none"
  /\ InitDoc
  /\ clicks = <<>>
  /\ studio = NoStudio
  /\ \E f \in Triggers, ch \in Chains :
       calc = [pc |-> "in", trigger |-> f, chain |-> ch, log |-> <<>>]

\* The synchronous part of the trigger
Dispatch ==
  /\ calc.pc = "in"
  /\ calc' =
       IF calc.trigger = "wake-up"
       THEN IF closest(calc.chain, "div[data-i]") = NULL
            THEN [calc EXCEPT !.pc = "out"]
            ELSE [calc EXCEPT !.pc = "await", !.log = wakeUp(calc.chain)]
       ELSE [calc EXCEPT !.pc = "out",
                         !.log = dispatchAll(fullSequence, clickableOf(calc.chain))]
  /\ UNCHANGED <<docVars, capVars, clicks, studio>>

\* The part_004 listener resumes after its wait
Resume ==
  /\ calc.pc = "await"
  /\ calc' = [calc EXCEPT !.pc = "out", !.log = @ \o completeCycle(calc.chain)]
  /\ UNCHANGED <<docVars, capVars, clicks, studio>>

NextTrigger == Dispatch \/ Resume

SpecTrigger == InitTrigger /\ [][NextTrigger]_vars

\* ---------------------------------------------------------------------------
\* The suppression handle: hidePreview / showPreview on the style elements
\* ---------------------------------------------------------------------------

\* A handle is the style element a session created (named by the session), or
\* NULL when hidePreview never returned one
Handles == Sessions \cup {NULL}

\* parentNode.removeChild(style): a TypeError when the element has no parent
removeChild(st, h) ==
  IF h \in st THEN [styles |-> st \ {h}, raised |-> FALSE]
  ELSE [styles |-> st, raised |-> TRUE]

\* Release without the attachment test
releaseUnguarded(st, h) == removeChild(st, h)

\* showPreview(style) / removeHideStyle(style):
\* if (style && style.parentNode) style.parentNode.removeChild(style)
releaseHandle(st, h) ==
  IF h # NULL /\ h \in st THEN removeChild(st, h)
  ELSE [styles |-> st, raised |-> FALSE]

InitHandle ==
  /\ script = "none"
  /\ InitDoc
  /\ clicks = <<>>
  /\ studio = NoStudio
  /\ calc = [pc |-> "handles", created |-> {}, releases |-> [h \in Handles |-> 0],
             last |-> NULL, before |-> {}, attached |-> FALSE, raised |-> FALSE,
             justReleased |-> FALSE]

\* hidePreview by session h: the element is created; appendChild attaches it
\* unless activation fails before that
Hide(h, attaches) ==
  /\ calc.pc = "handles"
  /\ h \in Sessions \ calc.created
  /\ calc' = [calc EXCEPT !.created = @ \cup {h}, !.justReleased = FALSE]
  /\ styles' = IF attaches THEN hidePreview(styles, h) ELSE styles
  /\ UNCHANGED <<script, lastRightClickedElement, href, preview, sess>>
  /\ UNCHANGED <<capVars, clicks, studio>>

\* showPreview(h), any number of times, for a created handle or for none
Release(h) ==
  /\ calc.pc = "handles"
  /\ h \in calc.created \cup {NULL}
  /\ calc.releases[h] < MaxReleases
  /\ LET r == releaseHandle(styles, h)
     IN /\ styles' = r.styles
        /\ calc' = [calc EXCEPT !.releases[h] = @ + 1, !.last = h,
                                !.before = styles, !.attached = h \in styles,
                                !.raised = @ \/ r.raised, !.justReleased = TRUE]
  /\ UNCHANGED <<script, lastRightClickedElement, href, preview, sess>>
  /\ UNCHANGED <<capVars, clicks, studio>>

NextHandle ==
  \/ \E h \in Sessions, attaches \in BOOLEAN : Hide(h, attaches)
  \/ \E h \in Handles : Release(h)

SpecHandle == InitHandle /\ [][NextHandle]_vars

\* ---------------------------------------------------------------------------
\* The poll-based waits: waitForHighResUrl (src/content.js:121-190, animation
\* frames) and waitForHighResImage (src/unnamed/part_002:100-180, interval)
\* ---------------------------------------------------------------------------

WaitVersions == {"waitForHighResUrl", "waitForHighResImage"}

\* The methods of one pass, in the order the pass tries them
Methods(v) ==
  IF v = "waitForHighResUrl"
  THEN {"preview image", "imgurl link", "visible link"}
  ELSE {"primary selector", "largest image", "imgurl link"}

\* What one pass can do after the deadline test: find nothing, find a
\* candidate, or raise.  Only check() of waitForHighResUrl can raise
\* (href.match at content.js:155 on an anchor whose href is no string); the
\* interval callback reads img.src and guards its link loop with try / catch.
Outcomes(v) ==
  IF v = "waitForHighResUrl" THEN {"none", "found", "throw"} ELSE {"none", "found"}

\* resolve(value): the first call fulfils the promise, later calls do nothing
resolvePromise(w, m, e) ==
  [w EXCEPT !.resolves = w.resolves + 1,
            !.settled = IF w.settled = "pending" THEN "fulfilled" ELSE w.settled,
            !.method = IF w.settled = "pending" THEN m ELSE w.method,
            !.value = IF w.settled = "pending" THEN e ELSE w.value]

\* check() of waitForHighResUrl (content.js:125-186); inExecutor: the call at
\* line 188, whose exception rejects the promise
check(w, o, m, e, inExecutor) ==
  IF Expired(w.elapsed) THEN resolvePromise(w, "timeout", NULL)
  ELSE IF o = "found" THEN resolvePromise(w, m, e)
  ELSE IF o = "throw"
       THEN [w EXCEPT !.threw = TRUE,
                      !.settled = IF inExecutor /\ w.settled = "pending"
                                  THEN "rejected" ELSE w.settled]
  ELSE [w EXCEPT !.frames = w.frames + 1]

\* the interval callback of waitForHighResImage (part_002:117-178)
tick(w, o, m, e) ==
  IF Expired(w.elapsed)
  THEN resolvePromise([w EXCEPT !.interval = FALSE], "timeout", NULL)
  ELSE IF o = "found" THEN resolvePromise([w EXCEPT !.interval = FALSE], m, e)
  ELSE w

InitWait ==
  /\ script = "none"
  /\ InitDoc
  /\ clicks = <<>>
  /\ studio = NoStudio
  /\ \E v \in WaitVersions :
       calc = [pc |-> "wait", version |-> v, started |-> FALSE, elapsed |-> 0,
               frames |-> 0, interval |-> FALSE, resolves |-> 0,
               settled |-> "pending", method |-> "", value |-> NULL,
               threw |-> FALSE, late |-> FALSE, passes |-> 0,
               resumed |-> FALSE]

\* new Promise(executor): waitForHighResUrl runs check() at once,
\* waitForHighResImage only arms the interval
StartWait(o, m, e) ==
  /\ calc.pc = "wait"
  /\ ~calc.started
  /\ o \in Outcomes(calc.version)
  /\ m \in Methods(calc.version)
  /\ calc' = IF calc.version = "waitForHighResUrl"
             THEN check([calc EXCEPT !.started = TRUE, !.passes = 1], o, m, e, TRUE)
             ELSE [calc EXCEPT !.started = TRUE, !.interval = TRUE]
  /\ UNCHANGED <<docVars, capVars, clicks, studio>>

\* A scheduled animation frame runs check(), dt after the last pass
FrameCallback(o, m, e, dt) ==
  /\ calc.pc = "wait"
  /\ calc.version = "waitForHighResUrl"
  /\ calc.frames > 0
  /\ m \in Methods(calc.version)
  /\ calc' = check([calc EXCEPT !.frames = calc.frames - 1,
                                !.elapsed = calc.elapsed + dt,
                                !.passes = calc.passes + 1,
                                !.late = calc.late \/ calc.settled # "pending"],
                   o, m, e, FALSE)
  /\ UNCHANGED <<docVars, capVars, clicks, studio>>

\* The interval fires, dt after the last pass
IntervalCallback(o, m, e, dt) ==
  /\ calc.pc = "wait"
  /\ calc.version = "waitForHighResImage"
  /\ calc.interval
  /\ o \in Outcomes(calc.version)
  /\ m \in Methods(calc.version)
  /\ calc' = tick([calc EXCEPT !.elapsed = calc.elapsed + dt,
                               !.passes = calc.passes + 1,
                               !.late = calc.late \/ calc.settled # "pending"],
                  o, m, e)
  /\ UNCHANGED <<docVars, capVars, clicks, studio>>

\* The caller's await (content.js:249, part_002:209) resumes once the promise
\* has settled
AwaitResumes ==
  /\ calc.pc = "wait"
  /\ calc.settled # "pending"
  /\ ~calc.resumed
  /\ calc' = [calc EXCEPT !.resumed = TRUE]
  /\ UNCHANGED <<docVars, capVars, clicks, studio>>

NextWait ==
  \/ AwaitResumes
  \/ \E o \in Outcomes("waitForHighResUrl"), e \in Elements,
        m \in Methods("waitForHighResUrl") \cup Methods("waitForHighResImage") :
       StartWait(o, m, e)
  \/ \E o \in Outcomes("waitForHighResUrl"), e \in Elements,
        m \in Methods("waitForHighResUrl"), dt \in 1..PollStep :
       FrameCallback(o, m, e, dt)
  \/ \E o \in Outcomes("waitForHighResImage"), e \in Elements,
        m \in Methods("waitForHighResImage"), dt \in 1..PollStep :
       IntervalCallback(o, m, e, dt)

SpecWait == InitWait /\ [][NextWait]_vars

\* ---------------------------------------------------------------------------
\* extractFromPreviewPanel of src/unnamed/part_003:107-194: the scan loop with
\* its running best candidate
\* ---------------------------------------------------------------------------

\* Rendered widths around the loop's two thresholds (400 and 600)
Widths == {300, 500, 700}

\* No candidate held
NoBest == [kind |-> "none", len |-> 0, width |-> 0]

\* Valid URLs an iteration can meet: of an <img>, of a data attribute
\* (data-iurl / data-ou / data-src), of an imgurl link
ImageUrls == [kind : {"image"}, len : UrlLengths, width : Widths]
DataUrls == [kind : {"data"}, len : UrlLengths, width : {0}]
LinkUrls == [kind : {"link"}, len : UrlLengths, width : {0}]

\* The images of the page in document order, at most two
ImageLists == {<<>>} \cup {<<a>> : a \in ImageUrls} \cup {<<a, b>> : a, b \in ImageUrls}

\* Method 1 (lines 116-133): the widest valid image wider than 400 so far
RECURSIVE scanImages(_, _)
scanImages(imgs, b) ==
  IF imgs = <<>> THEN b
  ELSE LET img == Head(imgs)
       IN scanImages(Tail(imgs),
            IF img.width > 400 /\ img.width > b.bestWidth
            THEN [b EXCEPT !.bestUrl = img, !.bestWidth = img.width, !.widest = img]
            ELSE b)

\* Methods 2 and 3 (lines 135-159): a valid attribute or link URL replaces
\* bestUrl when none is held or when it is longer; bestWidth is left alone
longerWins(b, u) ==
  IF u # NoBest /\ (b.bestUrl = NoBest \/ u.len > b.bestUrl.len)
  THEN [b EXCEPT !.bestUrl = u]
  ELSE b

\* One body of the while loop up to its early-return test
scanPass(b, imgs, data, link) ==
  longerWins(longerWins(scanImages(imgs, b), data), link)

InitPanel ==
  /\ script = "none"
  /\ InitDoc
  /\ clicks = <<>>
  /\ studio = NoStudio
  /\ calc = [pc |-> "panel", scans |-> 0, bestUrl |-> NoBest, bestWidth |-> 0,
             widest |-> NoBest, returned |-> "no", result |-> NoBest]

\* One iteration of the loop (lines 114-176): Methods 1-3, Method 4's direct
\* return of a jsname element's URL, the early return, else a 150 ms wait
ScanPanel(imgs, data, link, jsname) ==
  /\ calc.pc = "panel"
  /\ calc.returned = "no"
  /\ calc.scans < MaxScans
  /\ LET b == scanPass(calc, imgs, data, link)
     IN calc' = IF jsname # NoBest
                THEN [b EXCEPT !.scans = calc.scans + 1, !.returned = "jsname",
                               !.result = jsname]
                ELSE IF b.bestUrl # NoBest /\ b.bestWidth > 600
                THEN [b EXCEPT !.scans = calc.scans + 1, !.returned = "early",
                               !.result = b.bestUrl]
                ELSE [b EXCEPT !.scans = calc.scans + 1]
  /\ UNCHANGED <<docVars, capVars, clicks, studio>>

\* The deadline test of the while ends the loop (lines 178-186): whatever was
\* found is returned, else null
PanelDeadline ==
  /\ calc.pc = "panel"
  /\ calc.returned = "no"
  /\ calc' = [calc EXCEPT !.returned = "late", !.result = calc.bestUrl]
  /\ UNCHANGED <<docVars, capVars, clicks, studio>>

NextPanel ==
  \/ \E imgs \in ImageLists, data \in DataUrls \cup {NoBest},
        link \in LinkUrls \cup {NoBest}, jsname \in ImageUrls \cup {NoBest} :
       ScanPanel(imgs, data, link, jsname)
  \/ PanelDeadline

SpecPanel == InitPanel /\ [][NextPanel]_vars

\* ---------------------------------------------------------------------------
\* Upscale Studio, src/upscale.js:1-505: the invocations of handleProcess and
\* the page elements they share
\* ---------------------------------------------------------------------------

\* handleProcess invocations of one page
Runs == 1..MaxRuns

\* upscaleApi values: one request / response provider and the polled one
Apis == {"claid", "replicate"}

\* Status values of a Replicate prediction; "none": the answer carries no
\* status and no urls (an error body)
Terminal == {"succeeded", "failed", "canceled"}
Statuses == {"none", "starting", "processing"} \cup Terminal

IdleRun == [pc |-> "idle", status |-> "none"]

InFlight(st) == {r \in Runs : st.run[r].pc \notin {"idle", "done"}}

\* handleProcess (lines 366-374) up to its first await, as invocation r: the
\* output frame is hidden, the loading state shown, the button disabled
startProcess(st, r) ==
  [st EXCEPT !.loading = TRUE, !.disabled = TRUE, !.download = FALSE,
             !.shown = 0, !.started = r, !.run[r] = [pc |-> "config", status |-> "none"]]

\* showError (lines 409-420), reached from invocation r
showErrorOf(st, r) ==
  [st EXCEPT !.loading = FALSE, !.error = TRUE, !.shown = 0, !.disabled = FALSE,
             !.run[r] = [pc |-> "done", status |-> st.run[r].status]]

\* The loop test of upscaleWithReplicate (line 310) and what follows the loop
afterStatus(st, r, s) ==
  IF s \notin {"succeeded", "failed"}
  THEN [st EXCEPT !.run[r] = [pc |-> "pollwait", status |-> s]]
  ELSE IF s = "failed" THEN showErrorOf([st EXCEPT !.run[r].status = s], r)
  ELSE [st EXCEPT !.upscaled = r, !.run[r] = [pc |-> "image", status |-> s]]

InitProcess ==
  /\ script = "none"
  /\ InitDoc
  /\ calc = NoCalc
  /\ clicks = <<>>
  /\ \E key \in EnteredKeys, api \in Apis :
       studio = [pc |-> "process", page |-> "loading", apiKey |-> key,
                 upscaleApi |-> api, notice |-> FALSE, disabled |-> TRUE,
                 loading |-> FALSE, download |-> FALSE, error |-> FALSE,
                 upscaled |-> 0, shown |-> 0, started |-> 0,
                 run |-> [r \in Runs |-> IdleRun]]

\* img.onload of loadSourceImage (lines 56-68): the button is enabled and the
\* stored key is asked for
SourceShown ==
  /\ studio.pc = "process"
  /\ studio.page = "loading"
  /\ studio' = [studio EXCEPT !.page = "checking", !.disabled = FALSE]
  /\ UNCHANGED <<docVars, capVars, calc, clicks>>

\* The chrome.storage.sync.get callback (lines 69-77): auto-start, or the notice
KeyRead ==
  /\ studio.pc = "process"
  /\ studio.page = "checking"
  /\ LET st == [studio EXCEPT !.page = "open"]
     IN IF studio.apiKey # ""
        THEN /\ studio.started < MaxRuns
             /\ studio' = startProcess(st, studio.started + 1)
        ELSE studio' = [st EXCEPT !.notice = TRUE]
  /\ UNCHANGED <<docVars, capVars, calc, clicks>>

\* A click on the process button; a disabled button fires no click event
ButtonClicked ==
  /\ studio.pc = "process"
  /\ ~studio.disabled
  /\ studio.started < MaxRuns
  /\ studio' = startProcess(studio, studio.started + 1)
  /\ UNCHANGED <<docVars, capVars, calc, clicks>>

\* showApiConfig (lines 446-478) from a link of the visible notice: the entry
\* is stored, and processing starts when no upscaled URL is held
ConfigEntered(key, api) ==
  /\ studio.pc = "process"
  /\ studio.notice
  /\ LET st == [studio EXCEPT !.apiKey = key, !.upscaleApi = api]
     IN IF studio.upscaled = 0
        THEN /\ studio.started < MaxRuns
             /\ studio' = startProcess(st, studio.started + 1)
        ELSE studio' = st
  /\ UNCHANGED <<docVars, capVars, calc, clicks>>

\* upscaleImage (lines 107-130) after the stored configuration is read; the
\* provider's first answer is part of the next step
ConfigRead(r) ==
  /\ studio.pc = "process"
  /\ studio.run[r].pc = "config"
  /\ studio' = IF studio.apiKey = "" THEN showErrorOf(studio, r)
               ELSE [studio EXCEPT !.run[r].pc =
                       IF studio.upscaleApi = "replicate" THEN "predict" ELSE "request"]
  /\ UNCHANGED <<docVars, capVars, calc, clicks>>

\* upscaleWithClaid: the answer gives an output URL, or the call throws
Answered(r, ok) ==
  /\ studio.pc = "process"
  /\ studio.run[r].pc = "request"
  /\ studio' = IF ok
               THEN [studio EXCEPT !.upscaled = r, !.run[r].pc = "image"]
               ELSE showErrorOf(studio, r)
  /\ UNCHANGED <<docVars, capVars, calc, clicks>>

\* upscaleWithReplicate, lines 294-310: the POST is answered with a prediction
\* that has just been created, or with an error body
Predicted(r, s) ==
  /\ studio.pc = "process"
  /\ studio.run[r].pc = "predict"
  /\ s \in {"none", "starting"}
  /\ studio' = afterStatus(studio, r, s)
  /\ UNCHANGED <<docVars, capVars, calc, clicks>>

\* The prediction advances at the provider
PredictionAdvances(r, s) ==
  /\ studio.pc = "process"
  /\ studio.run[r].pc \in {"pollwait", "pollfetch"}
  /\ \/ studio.run[r].status = "starting" /\ s = "processing"
     \/ studio.run[r].status = "processing" /\ s \in Terminal
  /\ studio' = [studio EXCEPT !.run[r].status = s]
  /\ UNCHANGED <<docVars, capVars, calc, clicks>>

\* The 1 s timer of the poll loop (line 311)
PollTimer(r) ==
  /\ studio.pc = "process"
  /\ studio.run[r].pc = "pollwait"
  /\ studio' = [studio EXCEPT !.run[r].pc = "pollfetch"]
  /\ UNCHANGED <<docVars, capVars, calc, clicks>>

\* fetch(prediction.urls.get) and the loop test (lines 312-316); a prediction
\* without urls raises
PollFetched(r) ==
  /\ studio.pc = "process"
  /\ studio.run[r].pc = "pollfetch"
  /\ studio' = IF studio.run[r].status = "none" THEN showErrorOf(studio, r)
               ELSE afterStatus(studio, r, studio.run[r].status)
  /\ UNCHANGED <<docVars, capVars, calc, clicks>>

\* img.onload / img.onerror of the upscaled image (lines 384-398)
ResultLoaded(r, ok) ==
  /\ studio.pc = "process"
  /\ studio.run[r].pc = "image"
  /\ studio' = IF ok
               THEN [studio EXCEPT !.loading = FALSE, !.shown = r, !.error = FALSE,
                                   !.download = TRUE, !.disabled = FALSE,
                                   !.notice = FALSE, !.run[r].pc = "done"]
               ELSE showErrorOf(studio, r)
  /\ UNCHANGED <<docVars, capVars, calc, clicks>>

NextProcess ==
  \/ SourceShown
  \/ KeyRead
  \/ ButtonClicked
  \/ \E key \in EnteredKeys, api \in Apis : ConfigEntered(key, api)
  \/ \E r \in Runs : ConfigRead(r)
  \/ \E r \in Runs, ok \in BOOLEAN : Answered(r, ok)
  \/ \E r \in Runs, s \in Statuses : Predicted(r, s)
  \/ \E r \in Runs, s \in Statuses : PredictionAdvances(r, s)
  \/ \E r \in Runs : PollTimer(r)
  \/ \E r \in Runs : PollFetched(r)
  \/ \E r \in Runs, ok \in BOOLEAN : ResultLoaded(r, ok)

SpecProcess == InitProcess /\ [][NextProcess]_vars

\* Callbacks that are due run, the network answers, and a prediction does not
\* stay in a non-final status for ever
FairProcess ==
  /\ WF_vars(SourceShown)
  /\ WF_vars(KeyRead)
  /\ \A r \in Runs :
       /\ WF_vars(ConfigRead(r))
       /\ WF_vars(\E ok \in BOOLEAN : Answered(r, ok))
       /\ WF_vars(\E s \in Statuses : Predicted(r, s))
       /\ WF_vars(\E s \in Statuses : PredictionAdvances(r, s))
       /\ WF_vars(PollTimer(r))
       /\ WF_vars(PollFetched(r))
       /\ WF_vars(\E ok \in BOOLEAN : ResultLoaded(r, ok))

SpecProcessFair == SpecProcess /\ FairProcess

Next ==
  \/ \E e \in Elements : ContextMenu(e)
  \/ \E e \in Elements, k \in HrefKinds : HostPopulate(e, k)
  \/ \E e \in Elements : HostOpenPreview(e)
  \/ \E s \in Sessions, hint \in Elements \cup {NULL} : RequestClick(s, hint)
  \/ \E s \in Sessions, f \in Faults : AfterPreClean(s, f)
  \/ \E s \in Sessions, f \in Faults \ {"trigger"} : Frame(s, f)

Spec == Init /\ [][Next]_vars

NextGhost ==
  \/ \E e \in Elements : ContextMenu(e)
  \/ \E e \in Elements, k \in HrefKinds : HostPopulate(e, k)
  \/ \E e \in Elements : HostOpenPreview(e)
  \/ \E s \in Sessions, hint \in Elements \cup {NULL}, f \in Faults :
       RequestGhost(s, hint, f)
  \/ \E s \in Sessions, f \in Faults \ {"trigger"} : Poll(s, f)
  \/ \E s \in Sessions : AfterClose(s)

SpecGhost == InitGhost /\ [][NextGhost]_vars

NextObserver ==
  \/ \E c \in Captures, e \in Elements : ContextMenuObserver(c, e)
  \/ \E e \in Elements : HostSetAttr(e)
  \/ \E e \in Elements, k \in HrefKinds : HostPopulate(e, k)
  \/ \E e \in Elements : HostOpenPreview(e)
  \/ \E c \in Captures : TimeoutObserver(c)
  \/ \E s \in Sessions, hint \in Elements \cup {NULL}, f \in Faults \ {"trigger"} :
       RequestObserver(s, hint, f)
  \/ \E s \in Sessions : AfterHover(s)
  \/ \E s \in Sessions, f \in Faults \ {"trigger"} : AfterClickWait(s, f)

SpecObserver == InitObserver /\ [][NextObserver]_vars

NextObserver4 ==
  \/ \E c \in Captures, e \in Elements : ContextMenuObserver4(c, e)
  \/ \E e \in Elements : HostSetAttr(e)
  \/ \E e \in Elements, k \in HrefKinds : HostPopulate(e, k)
  \/ \E e \in Elements : HostOpenPreview(e)
  \/ \E c \in Captures : IntervalObserver4(c)
  \/ \E c \in Captures : TimeoutObserver4(c)
  \/ \E s \in Sessions, hint \in Elements \cup {NULL}, f \in Faults \ {"trigger"} :
       RequestObserver(s, hint, f)
  \/ \E s \in Sessions : AfterHover(s)
  \/ \E s \in Sessions, f \in Faults \ {"trigger"} : AfterClickWait(s, f)

SpecObserver4 == InitObserver4 /\ [][NextObserver4]_vars

\* ---------------------------------------------------------------------------
\* Properties
\* ---------------------------------------------------------------------------

Finished(s) == sess[s].pc = "done"

\* A session with no task left to run: it answered, or an error raised in a
\* frame callback abandoned its wait.
Ended(s) == sess[s].pc \in {"done", "hung"}

\* C1: after a session has ended (fast path, slow-path success, deadline
\* expiry, or an error raised while triggering or waiting), the style element
\* it injected is no longer attached to the document.
CleanupTotality ==
  \A s \in Sessions : Ended(s) => s \notin styles

\* C2: every session that applied activation finishes having run the full
\* deactivate: the style removed and a dismissal of the preview attempted
\* after activation, on every exit path.
FullDeactivate ==
  \A s \in Sessions :
    (Finished(s) /\ sess[s].hid) => (sess[s].removed /\ sess[s].after)

\* C3: every request receives exactly one response: a session with no task
\* left to run (finished, or its wait abandoned by an uncaught error) has
\* answered exactly once.
ExactlyOneResponse ==
  \A s \in Sessions : Ended(s) => sess[s].resp = 1

\* C4: a non-null URL sent for a request belongs to the request's target.
AnswerBelongsToTarget ==
  \A s \in Sessions :
    (Finished(s) /\ sess[s].sent # NoUrl) => sess[s].sent.owner = sess[s].target

\* C6: null is reported for want of a target only when the lookup by the
\* hinted thumbnail address finds no element either.
HintLookupBeforeNull ==
  \A s \in Sessions :
    (Finished(s) /\ sess[s].target = NULL) => sess[s].hint = NULL

\* C7: a session resolved on the fast path has finished with the fast path's
\* URL and has injected no style, dispatched no synthetic interaction and no
\* dismissal event, and started no observation.
FastPathBeforeActivation ==
  \A s \in Sessions :
    sess[s].fast =>
      /\ Finished(s)
      /\ sess[s].sent = Url(sess[s].target)
      /\ ~sess[s].hid /\ ~sess[s].trig /\ ~sess[s].obs
      /\ sess[s].closes = 0
      /\ s \notin styles

\* A session resolved on the fast path.
FastPathTaken ==
  \E s \in Sessions : sess[s].fast /\ Finished(s) /\ sess[s].sent # NoUrl

OneActiveSession ==
  Cardinality({s \in Sessions : sess[s].pc \in {"preclean", "waiting", "closing"}}) <= 1

\* C5: a request that arrives after a right-click and resolves against an
\* element resolves against the target of the most recent right-click that
\* preceded it, never against the target of an earlier one.
ResolvesAgainstLatestClick ==
  \A s \in Sessions :
    (sess[s].pc # "idle" /\ sess[s].asked # NULL /\ sess[s].target # NULL)
      => sess[s].target = sess[s].asked

\* C10: once a capture session has accepted a URL, its observer is
\* disconnected and no timer or interval of the session is still pending.
AcceptedCancelsAll ==
  \A c \in Captures :
    cap[c].accepted => (~cap[c].connected /\ ~cap[c].timer /\ ~cap[c].interval)

\* C16: normalization is idempotent: normalizing a normalized address (here
\* one on an ordinary host) leaves it as it is, also with stacked size
\* suffixes or several size segments.
NormalizeIdempotent ==
  (calc.pc = "twice" /\ HostOf(calc.url) = "host") => calc.twice = calc.once

\* C17: the normalizer leaves the scheme and the host of an address unchanged.
HostSchemeKept ==
  calc.pc \in {"once", "twice"} =>
    /\ SchemeOf(calc.once) = SchemeOf(calc.url)
    /\ HostOf(calc.once) = HostOf(calc.url)

\* The address ends in a size suffix =w<d>[-h<d>], =s<d> or =h<d>
EndsInSizeSuffix(u) ==
  \/ u[Len(u)] \in {"=wN", "=sN", "=hN"}
  \/ Len(u) >= 2 /\ u[Len(u)] = "-hN" /\ u[Len(u) - 1] = "=wN"

\* The address without its last size suffix
WithoutSizeSuffix(u) ==
  IF u[Len(u)] = "-hN" THEN SubSeq(u, 1, Len(u) - 2) ELSE SubSeq(u, 1, Len(u) - 1)

\* C19: a trailing size suffix is stripped (what is left is the address
\* without it, or less), and an address with no size suffix comes back
\* unchanged (addresses on an ordinary host).
SuffixStripped ==
  (calc.pc = "once" /\ calc.fn = "content" /\ HostOf(calc.url) = "host") =>
    IF EndsInSizeSuffix(calc.url)
    THEN /\ Len(calc.once) <= Len(WithoutSizeSuffix(calc.url))
         /\ calc.once = SubSeq(WithoutSizeSuffix(calc.url), 1, Len(calc.once))
    ELSE calc.once = calc.url

\* C18: every non-null originalUrl sent in a response went through the
\* normalizer after selection, on every resolution path.
AnswerNormalized ==
  \A s \in Sessions :
    (Finished(s) /\ sess[s].sent # NoUrl) => sess[s].sent.norm

\* C11: no resolution path returns an address that matches a denylisted host
\* pattern (gstatic.com, googleusercontent.com, ggpht.com, encrypted-tbn).
DenylistSafety ==
  (calc.pc = "out" /\ calc.accepted) => calc.cand.pat \notin Denylisted

\* C12: no accepted address uses a non-network scheme or is shorter than the
\* minimum plausible length.
SchemeAndLength ==
  (calc.pc = "out" /\ calc.accepted) =>
    /\ calc.cand.scheme \in {"http", "https"}
    /\ calc.cand.len >= MinLength

\* The candidates of the ranked payload
Ranking == {calc.payload[i] : i \in 1..Len(calc.payload)}

\* C13: the selected candidate has the maximal pixelArea among the accepted
\* candidates of the payload (unknown treated as 0), whatever the lengths and
\* the order of appearance.
MaxPixelAreaSelected ==
  calc.pc = "out" => \A c \in Ranking : calc.selected.pixels >= c.pixels

\* C14: among the candidates with the same pixelArea as the selected one (also
\* when none has dimension data) the selected one has the longest address.
LongestOnEqualArea ==
  calc.pc = "out" =>
    \A c \in Ranking : c.pixels = calc.selected.pixels => calc.selected.len >= c.len

\* C15: the selection is a function of the candidate set: enumerating the same
\* candidates in another order selects the same candidate.
SelectionOrderFree ==
  calc.pc = "out" => calc.again = calc.selected

\* C20: a click whose content script answered originalUrl = null, or whose
\* messaging failed even after the inject-and-retry, has opened exactly one
\* tab, for the thumbnail address (the image itself for the open-original menu
\* item); the listener catches the failure and the click has its result.
FallbackToThumbnail ==
  \A k \in Clicks :
    clicks[k].last \in {"null", "failed"} =>
      /\ clicks[k].pc = "done"
      /\ clicks[k].thumb = "thumbnail"
      /\ clicks[k].tabs = <<handleFinalUrl(clicks[k].action, clicks[k].thumb)>>
      /\ clicks[k].action = CONTEXT_MENU_ID =>
           clicks[k].tabs = <<[page |-> "image", url |-> "thumbnail"]>>

\* a click has finished after the retry failed too, another after a null answer
FallbackTaken ==
  \E k, l \in Clicks :
    /\ clicks[k].last = "failed" /\ clicks[k].tries = 2
    /\ clicks[k].tabs = <<[page |-> "image", url |-> "thumbnail"]>>
    /\ clicks[l].last = "null" /\ Len(clicks[l].tabs) = 1

\* C21: Upscale Studio sends a provider request only with a key the user has
\* configured: while no key is stored no request is in flight, and no request
\* ever carried another key; processing without a key ends in the error state.
NoKeyNoRequest ==
  studio.pc # "none" =>
    /\ studio.used \subseteq {"user key"}
    /\ studio.pc = "waiting" => studio.apiKey # ""

\* C22: when a session's wait expires with nothing accepted, the expiring step
\* scans the document once more: if the document holds an acceptable candidate
\* at that moment, the session answers with a URL instead of none.
FinalScanAtDeadline ==
  [][\A s \in Sessions :
       (sess[s].pc = "waiting" /\ sess'[s].timedOut /\ checkScan(FALSE).kind = "found")
         => sess'[s].sent # NoUrl]_vars

\* Nearest ancestor of the target that the page treats as interactive
Interactive == {"a[href]", "[jsaction*=click]", "[data-ved]"}

NearestInteractiveAncestor(chain) ==
  IF \E i \in Positions \ {1} : chain[i] \cap Interactive # {}
  THEN CHOOSE i \in Positions \ {1} :
         /\ chain[i] \cap Interactive # {}
         /\ \A j \in Positions \ {1} : chain[j] \cap Interactive # {} => i <= j
  ELSE NULL

\* The events logged at element p are press, then release, then click
PressReleaseClickAt(log, p) ==
  LET at == SelectSeq(log, LAMBDA ev : ev.at = p)
      rank(t) == IF t \in {"pointerdown", "mousedown"} THEN 1
                 ELSE IF t \in {"pointerup", "mouseup"} THEN 2 ELSE 3
  IN /\ \A k \in 1..3 : \E i \in 1..Len(at) : rank(at[i].type) = k
     /\ \A i, j \in 1..Len(at) : i < j => rank(at[i].type) <= rank(at[j].type)

\* C23: a finished trigger has dispatched press, release, click, in that order,
\* at the target element and at its nearest interactive ancestor.
PressReleaseClickAtBoth ==
  calc.pc = "out" /\ calc.trigger \in Triggers =>
    /\ PressReleaseClickAt(calc.log, 1)
    /\ NearestInteractiveAncestor(calc.chain) # NULL =>
         PressReleaseClickAt(calc.log, NearestInteractiveAncestor(calc.chain))

\* C24: every session that applied activation and finished has reversed the
\* visual suppression and has tried to dismiss the preview by an Escape signal
\* and by a click on a dismissal control.
TwoDismissals ==
  \A s \in Sessions :
    (Finished(s) /\ sess[s].hid) =>
      /\ sess[s].removed
      /\ s \notin styles
      /\ {"Escape", "close control"} \subseteq sess[s].mech

\* The last step released the handle calc.last
Released == calc.pc = "handles" /\ calc.justReleased

\* C25: releasing a handle raises no error, and a release of a handle whose
\* style is not attached (released before, never attached, or no handle at
\* all) leaves the attached styles as they were; a release of an attached
\* handle removes that style only.
ReleaseIdempotent ==
  /\ calc.pc = "handles" => ~calc.raised
  /\ Released =>
       /\ ~calc.attached => styles = calc.before
       /\ calc.attached => styles = calc.before \ {calc.last}

\* a handle released a second time, and one released that was never attached,
\* while another session's style is attached
ReleasedTwice ==
  /\ Released
  /\ calc.last # NULL /\ calc.releases[calc.last] >= 2 /\ ~calc.attached
  /\ styles # {}
  /\ ~calc.raised

\* C26: a failure of the synthetic trigger does not abort resolution: every
\* finished session that attempted the trigger has also run the observation
\* (which may have found a candidate) and has attempted deactivate.
TriggerFailureTolerated ==
  \A s \in Sessions :
    (Finished(s) /\ sess[s].trig) =>
      /\ sess[s].obs
      /\ sess[s].removed /\ sess[s].after

\* C27: scanning never throws: no session's observation is ended by an error
\* raised inside a scan pass (a malformed fragment is skipped and the pass goes
\* on with its remaining strategies).
ScanNeverThrows ==
  \A s \in Sessions : ~(sess[s].obs /\ sess[s].threw)

\* Position of a phase in Activated (suppress, trigger), Observing, Resolved or
\* Expired, Cleaned
PhaseRank(p) ==
  IF p = "suppress" THEN 1
  ELSE IF p = "trigger" THEN 2
  ELSE IF p = "observe" THEN 3
  ELSE IF p \in {"resolved", "expired"} THEN 4
  ELSE 5

\* The phases a session has visited are in order; it observes only after the
\* activation has run, and holds its suppression for as long as it observes.
SessionPhaseOrder ==
  \A s \in Sessions :
    LET ph == sess[s].phases IN
    /\ \A i, j \in 1..Len(ph) : i < j => PhaseRank(ph[i]) < PhaseRank(ph[j])
    /\ (\E i \in 1..Len(ph) : ph[i] = "observe") =>
         (Len(ph) >= 3 /\ ph[1] = "suppress" /\ ph[2] = "trigger")
    /\ (sess[s].pc = "waiting" /\ sess[s].hid) =>
         (s \in styles /\ ph[Len(ph)] = "observe")

FirstAcceptedWins ==
  [][\A c \in Captures :
       (cap[c].stores > 0 /\ cap'[c].stores > cap[c].stores)
         => capturedHighResUrl = NoUrl]_vars

\* a session's observer stored its URL, and its safety timeout has fired while
\* that URL was held
TimeoutAfterAccept ==
  \E c \in Captures :
    /\ cap[c].resolved /\ cap[c].stores = 1
    /\ cap[c].pc = "settled" /\ ~cap[c].timer
    /\ capturedHighResUrl = Url(cap[c].container)

\* C30: the URL held in the captured-URL slot was extracted from the container
\* of the most recent right-click: no observer callback or safety timeout of an
\* earlier right-click writes the slot after a newer right-click has reset it.
SlotOfLatestClick ==
  capturedHighResUrl # NoUrl => capturedHighResUrl.owner = clicked

\* C31: the poll-based wait settles its promise exactly once: a started wait
\* with no animation frame and no interval left has settled, resolve was
\* called at most once, and no callback of the wait ran after it settled.
WaitSettlesOnce ==
  (calc.pc = "wait" /\ calc.started /\ calc.frames = 0 /\ ~calc.interval)
    => (calc.settled # "pending" /\ calc.resolves <= 1 /\ ~calc.late)

OneRequestInFlight ==
  studio.pc = "process" =>
    /\ Cardinality(InFlight(studio)) <= 1
    /\ studio.shown # 0 => studio.shown = studio.started

\* C34: every handleProcess invocation eventually ends, with the upscaled image
\* or with an error; in particular the Replicate status poll loop terminates.
ProcessLeavesLoading ==
  \A r \in Runs :
    (studio.pc = "process" /\ studio.run[r].pc # "idle")
      ~> (studio.pc = "process" /\ studio.run[r].pc = "done")

\* C35: a handled context-menu click that carries an image URL creates exactly
\* one tab on every path, none before it has finished, and the content script
\* is injected at most once and asked at most twice.
ExactlyOneTab ==
  \A k \in Clicks :
    (clicks[k].action \in {CONTEXT_MENU_ID, "hires-upscale"} /\ clicks[k].thumb # "")
      => /\ Len(clicks[k].tabs) = (IF clicks[k].pc = "done" THEN 1 ELSE 0)
         /\ clicks[k].injected <= 1
         /\ clicks[k].tries <= 2

\* one click ended with the resolved address after one injection and a second
\* request, another on a page that is not Google Images; each opened one tab
EveryPathTaken ==
  \E k, l \in Clicks :
    /\ clicks[k].last = "original" /\ clicks[k].injected = 1 /\ clicks[k].tries = 2
    /\ Len(clicks[k].tabs) = 1
    /\ clicks[l].last = "other page" /\ Len(clicks[l].tabs) = 1

====
